---- MODULE Spec2Model ----
(***************************************************************************)
(* The instruction window of DisassemblyView (iconRegistry.ts, 623-749):   *)
(* the table rows, _lastOffset, the scroll handler and the asynchronous    *)
(* loadDisassembledInstructions with its .then continuations.              *)
(***************************************************************************)
EXTENDS Integers, Sequences, FiniteSets, TLC

VARIABLES
    created,      \* createEditor has run (the table exists, the handler is attached)
    lineHeight,   \* this._fontInfo.lineHeight
    lastOffset,   \* this._lastOffset
    rows,         \* the rows of this._disassembledInstructions, each row its address
    requests,     \* every getDisassemble call made so far, in call order
    reveals,      \* every reveal(index, relativeTop) call made so far
    disposed,     \* the pane, and with it the registered table, has been disposed
    last,         \* the step taken last (history)
    iconsById,        \* IconRegistry.iconsById: the contributions, in key order
    properties,       \* IconRegistry.iconSchema.properties
    enumIds,          \* IconRegistry.iconReferenceSchema.enum
    enumDescriptions, \* IconRegistry.iconReferenceSchema.enumDescriptions
    attached,         \* the module's onDidChangeSchema listener is attached
    scheduled,        \* delayer.isScheduled()
    regLast,          \* the registry operation run last (history)
    instance,         \* DisassemblyViewInput._instance: 0 while it is not set
    inputs,           \* the number of DisassemblyViewInput objects constructed
    disposedInputs,   \* the constructed inputs that have been disposed
    reads             \* what each read of DisassemblyViewInput.instance returned

viewVars == <<created, lineHeight, lastOffset, rows, requests, reveals, disposed, last>>

regVars == <<iconsById, properties, enumIds, enumDescriptions, attached, scheduled, regLast>>

inputVars == <<instance, inputs, disposedInputs, reads>>

vars == <<created, lineHeight, lastOffset, rows, requests, reveals, disposed, last,
          iconsById, properties, enumIds, enumDescriptions, attached, scheduled, regLast,
          instance, inputs, disposedInputs, reads>>

(* ------------------------------ bounds -------------------------------- *)

\* the number of getDisassemble calls a behaviour may make
MaxRequests == 3

\* the number of entries the enum of the icon reference schema may reach
MaxEnum == 3

\* the number of reads of DisassemblyViewInput.instance a behaviour may make
MaxReads == 6

\* the icon ids, default glyphs, descriptions and deprecation messages tried;
\* <<>> is a description that is not given, "" a message that is not given
Ids == {"a", "b"}
Glyphs == {"c1", "c2"}
Descriptions == {<<>>, <<"d1">>}
Deprecations == {"", "old"}

\* the line heights and viewport heights tried
LineHeights == {1, 2}
Heights == {20}

(* ------------------------- program constants -------------------------- *)

NUM_INSTRUCTIONS_TO_LOAD == 50

(* --------------------------- the paged source ------------------------- *)

\* getDisassemble(address, offset, 0, count) answering k rows: the rows at
\* the logical positions offset, offset+1, ... of the source, in order.
\* A row is identified by its address, here its logical position.
Page(offset, k) == [i \in 1..k |-> offset + (i - 1)]

\* the page lengths a source may answer for a request of count rows
ResultLengths(count) == {0, 1, count}

(* ------------------------------ helpers ------------------------------- *)

Max(a, b) == IF a >= b THEN a ELSE b

\* table.splice(start, 0, elements)
Splice(seq, start, elements) ==
    SubSeq(seq, 1, start) \o elements \o SubSeq(seq, start + 1, Len(seq))

\* the scroll positions tried for content of height sh in a viewport of
\* height h: the top, inside the first viewport, the end of the first
\* viewport and the bottom; a scroll position lies in [0, sh - h]
ScrollTops(sh, h) == {t \in {0, h - 5, h, sh - h} : 0 <= t /\ t <= Max(0, sh - h)}

\* the scroll events the table can fire while it holds the rows it holds:
\* scrollHeight is the height of the rows
ScrollEvents ==
    LET sh == Len(rows) * lineHeight IN
    UNION { { [oldScrollTop |-> o, scrollTop |-> n, height |-> h, scrollHeight |-> sh] :
                o \in ScrollTops(sh, h), n \in ScrollTops(sh, h) } : h \in Heights }

NoEvent == [oldScrollTop |-> 0, scrollTop |-> 0, height |-> 0, scrollHeight |-> 0]

\* the record of a step: the operation, its scroll event or the request it
\* settled with the outcome and the number of rows answered, and the outcome
\* of the step before it
Step(op, ev, req, outcome, k) ==
    [op |-> op, ev |-> ev, req |-> req, outcome |-> outcome, k |-> k,
     after |-> last.outcome]

\* a getDisassemble call; topRow is the address of the row that is at the top
\* of the viewport when a backward-triggering event fires, the row at index
\* floor(scrollTop / lineHeight) = topElement - NUM_INSTRUCTIONS_TO_LOAD
Request(kind, offset, count, topElement) ==
    [kind |-> kind, offset |-> offset, count |-> count,
     topElement |-> topElement, status |-> "pending", returned |-> 0,
     topRow |-> IF kind = "backward"
                THEN rows[topElement - NUM_INSTRUCTIONS_TO_LOAD + 1]
                ELSE 0]

(* ------------------------------ Init ---------------------------------- *)

Init ==
    /\ created = FALSE
    /\ lineHeight \in LineHeights
    /\ lastOffset = 0
    /\ rows = <<>>
    /\ requests = <<>>
    /\ reveals = <<>>
    /\ disposed = FALSE
    /\ last = [op |-> "new", ev |-> NoEvent, req |-> 0, outcome |-> "none", k |-> 0,
               after |-> "none"]
    /\ iconsById = <<>>
    /\ properties = <<>>
    /\ enumIds = <<>>
    /\ enumDescriptions = <<>>
    /\ attached = FALSE
    /\ scheduled = FALSE
    /\ regLast = [op |-> "new", id |-> "", defaults |-> "", description |-> <<>>,
                  fired |-> 0, returned |-> [id |-> ""], schedules |-> 0,
                  seen |-> <<>>]
    /\ instance = 0
    /\ inputs = 0
    /\ disposedInputs = {}
    /\ reads = <<>>

(* ------------------------- createEditor ------------------------------- *)

\* loadDisassembledInstructions(offset, instructionCount) up to its await:
\* one getDisassemble call; kind and topElement are what the caller's .then
\* continuation closes over
LoadDisassembledInstructions(kind, offset, instructionCount, topElement) ==
    requests' = Append(requests, Request(kind, offset, instructionCount, topElement))

\* createEditor without the assignment to _lastOffset
CreateEditorKeepsOffset ==
    /\ ~created
    /\ created' = TRUE
    /\ lastOffset' = lastOffset
    /\ LoadDisassembledInstructions("init", lastOffset', NUM_INSTRUCTIONS_TO_LOAD, 0)
    /\ last' = Step("createEditor", NoEvent, Len(requests'), "none", 0)
    /\ UNCHANGED <<disposed, regVars, inputVars>>
    /\ UNCHANGED <<lineHeight, rows, reveals>>

\* createEditor calling reveal without waiting for the initial load
CreateEditorRevealsEarly ==
    /\ ~created
    /\ created' = TRUE
    /\ lastOffset' = -NUM_INSTRUCTIONS_TO_LOAD
    /\ LoadDisassembledInstructions("init", lastOffset', NUM_INSTRUCTIONS_TO_LOAD, 0)
    /\ reveals' = Append(reveals, [index |-> NUM_INSTRUCTIONS_TO_LOAD, relativeTop |-> "0.5"])
    /\ last' = Step("createEditor", NoEvent, Len(requests'), "none", 0)
    /\ UNCHANGED <<disposed, regVars, inputVars>>
    /\ UNCHANGED <<lineHeight, rows>>

\* createEditor: the table is created empty, _lastOffset is set and the
\* initial load is started
CreateEditor ==
    /\ ~created
    /\ created' = TRUE
    /\ lastOffset' = -NUM_INSTRUCTIONS_TO_LOAD
    /\ LoadDisassembledInstructions("init", lastOffset', NUM_INSTRUCTIONS_TO_LOAD, 0)
    /\ last' = Step("createEditor", NoEvent, Len(requests'), "none", 0)
    /\ UNCHANGED <<disposed, regVars, inputVars>>
    /\ UNCHANGED <<lineHeight, rows, reveals>>

(* ------------------------- the scroll handler ------------------------- *)

\* the backward condition without the test against the viewport height
BackwardConditionAnyUp(e) == e.oldScrollTop > e.scrollTop

BackwardCondition(e) == e.oldScrollTop > e.scrollTop /\ e.scrollTop < e.height

ForwardCondition(e) ==
    e.oldScrollTop < e.scrollTop /\ e.scrollTop + e.height > e.scrollHeight - e.height

TopElement(e) == (e.scrollTop \div lineHeight) + NUM_INSTRUCTIONS_TO_LOAD

\* the backward branch that asks for the page at _lastOffset as it was
\* before the decrement
BackwardBranchStaleAnchor(e) ==
    /\ Len(requests) < MaxRequests
    /\ lastOffset' = lastOffset - NUM_INSTRUCTIONS_TO_LOAD
    /\ LoadDisassembledInstructions("backward", lastOffset, NUM_INSTRUCTIONS_TO_LOAD,
                                    TopElement(e))

BackwardBranch(e) ==
    /\ Len(requests) < MaxRequests
    /\ lastOffset' = lastOffset - NUM_INSTRUCTIONS_TO_LOAD
    /\ LoadDisassembledInstructions("backward", lastOffset', NUM_INSTRUCTIONS_TO_LOAD,
                                    TopElement(e))

\* the forward branch that advances _lastOffset by the page it asks for
ForwardBranchMovesOffset(e) ==
    /\ Len(requests) < MaxRequests
    /\ LoadDisassembledInstructions("forward", Len(rows), NUM_INSTRUCTIONS_TO_LOAD, 0)
    /\ lastOffset' = lastOffset + NUM_INSTRUCTIONS_TO_LOAD

ForwardBranch(e) ==
    /\ Len(requests) < MaxRequests
    /\ LoadDisassembledInstructions("forward", Len(rows), NUM_INSTRUCTIONS_TO_LOAD, 0)
    /\ UNCHANGED lastOffset

\* the listener with the bodies of its two branches exchanged
OnDidScrollSwapped(e) ==
    /\ created /\ ~disposed
    /\ IF BackwardCondition(e) THEN ForwardBranch(e)
       ELSE IF ForwardCondition(e) THEN BackwardBranch(e)
       ELSE UNCHANGED <<lastOffset, requests>>
    /\ last' = Step("scroll", e, 0, "none", 0)
    /\ UNCHANGED <<disposed, regVars, inputVars>>
    /\ UNCHANGED <<created, lineHeight, rows, reveals>>

\* the onDidScroll listener
OnDidScroll(e) ==
    /\ created /\ ~disposed
    /\ IF BackwardCondition(e) THEN BackwardBranch(e)
       ELSE IF ForwardCondition(e) THEN ForwardBranch(e)
       ELSE UNCHANGED <<lastOffset, requests>>
    /\ last' = Step("scroll", e, 0, "none", 0)
    /\ UNCHANGED <<disposed, regVars, inputVars>>
    /\ UNCHANGED <<created, lineHeight, rows, reveals>>

(* --------------------- completion of a load --------------------------- *)

\* the merge that always splices at the end of the rows
MergeAppend(offset, resultEntries) == Splice(rows, Len(rows), resultEntries)

\* the merge whose copy loop stops one entry early
MergeDropLast(offset, resultEntries) ==
    LET newEntries == SubSeq(resultEntries, 1, Len(resultEntries) - 1) IN
    IF offset >= 0
    THEN Splice(rows, offset, newEntries)
    ELSE Splice(rows, 0, newEntries)

\* the merge that passes the page length as splice's delete count
MergeReplace(offset, resultEntries) ==
    LET start == IF offset >= 0 THEN offset ELSE 0 IN
    SubSeq(rows, 1, start) \o resultEntries
        \o SubSeq(rows, start + Len(resultEntries) + 1, Len(rows))

\* the merge that replaces the rows by the page when the offset is negative
MergeReset(offset, resultEntries) ==
    IF offset >= 0
    THEN Splice(rows, offset, resultEntries)
    ELSE resultEntries

\* the rows after the body of loadDisassembledInstructions that follows the
\* await, for a source that answered resultEntries (<<>> is an empty page)
Merge(offset, resultEntries) ==
    IF offset >= 0
    THEN Splice(rows, offset, resultEntries)
    ELSE Splice(rows, 0, resultEntries)

\* the .then continuation of the caller, run when the load resolves
Continuation(r) ==
    IF r.kind = "init"
    THEN Append(reveals, [index |-> NUM_INSTRUCTIONS_TO_LOAD, relativeTop |-> "0.5"])
    ELSE IF r.kind = "backward"
    THEN Append(reveals, [index |-> r.topElement, relativeTop |-> "0"])
    ELSE reveals

SetStatus(i, st, k) == [requests EXCEPT ![i].status = st, ![i].returned = k]

\* the rejected load with its continuation attached by finally instead of then
SettleRejectedFinally(i) ==
    /\ requests[i].status = "pending"
    /\ requests' = SetStatus(i, "rejected", 0)
    /\ reveals' = Continuation(requests[i])
    /\ last' = Step("settle", NoEvent, i, "rejected", 0)
    /\ UNCHANGED <<disposed, regVars, inputVars>>
    /\ UNCHANGED <<created, lineHeight, lastOffset, rows>>

\* getDisassemble rejects: the await throws, the load rejects, no continuation
SettleRejected(i) ==
    /\ requests[i].status = "pending"
    /\ requests' = SetStatus(i, "rejected", 0)
    /\ last' = Step("settle", NoEvent, i, "rejected", 0)
    /\ UNCHANGED <<disposed, regVars, inputVars>>
    /\ UNCHANGED <<created, lineHeight, lastOffset, rows, reveals>>

\* getDisassemble resolves with undefined: the guard skips the merge
SettleUndefined(i) ==
    /\ requests[i].status = "pending"
    /\ requests' = SetStatus(i, "resolved", 0)
    /\ reveals' = Continuation(requests[i])
    /\ last' = Step("settle", NoEvent, i, "undefined", 0)
    /\ UNCHANGED <<disposed, regVars, inputVars>>
    /\ UNCHANGED <<created, lineHeight, lastOffset, rows>>

\* getDisassemble resolves with k rows
SettleRows(i, k) ==
    /\ requests[i].status = "pending"
    /\ rows' = Merge(requests[i].offset, Page(requests[i].offset, k))
    /\ requests' = SetStatus(i, "resolved", k)
    /\ reveals' = Continuation(requests[i])
    /\ last' = Step("settle", NoEvent, i, "rows", k)
    /\ UNCHANGED <<disposed, regVars, inputVars>>
    /\ UNCHANGED <<created, lineHeight, lastOffset>>

(* ------------------------------ dispose -------------------------------- *)

\* the pane is disposed: the table registered with _register is disposed
\* with it and fires no more scroll events; the field
\* _disassembledInstructions keeps referring to it
Dispose ==
    /\ created /\ ~disposed
    /\ disposed' = TRUE
    /\ last' = [op |-> "dispose", ev |-> NoEvent, req |-> 0, outcome |-> "none",
                k |-> 0, after |-> last.outcome]
    /\ UNCHANGED <<created, lineHeight, lastOffset, rows, requests, reveals>>
    /\ UNCHANGED <<regVars, inputVars>>

(* ------------------------------ Next ---------------------------------- *)

Next ==
    \/ CreateEditor
    \/ Dispose
    \/ \E e \in ScrollEvents : OnDidScroll(e)
    \/ \E i \in 1..Len(requests) : SettleRejected(i)
    \/ \E i \in 1..Len(requests) : SettleUndefined(i)
    \/ \E i \in 1..Len(requests) : \E k \in ResultLengths(requests[i].count) : SettleRows(i, k)

Spec == Init /\ [][Next]_vars

(* --------------------------- the icon registry ------------------------ *)

\* localize('icon.defaultDescription', 'Icon with identifier {0}', id)
DefaultDescription(id) == <<"Icon with identifier ", id>>

\* `${description}: $(${id})`
MarkdownDescription(description, id) == description \o <<": $(", id, ")">>

\* seq.indexOf(x), counted from 1: 0 when x is not in seq
IndexOf(seq, x) ==
    IF \E j \in 1..Len(seq) : seq[j] = x
    THEN CHOOSE j \in 1..Len(seq) : seq[j] = x /\ \A l \in 1..(j - 1) : seq[l] # x
    ELSE 0

RemoveAt(seq, j) == SubSeq(seq, 1, j - 1) \o SubSeq(seq, j + 1, Len(seq))

\* the keys of an object kept as a sequence of entries, in key order
Keys(entries) == [j \in 1..Len(entries) |-> entries[j].id]

\* object[id] = entry that always adds an entry
SetKeyAppends(entries, entry) == Append(entries, entry)

\* object[id] = entry: an existing key keeps its place, a new key goes last
SetKey(entries, entry) ==
    LET j == IndexOf(Keys(entries), entry.id) IN
    IF j = 0 THEN Append(entries, entry) ELSE [entries EXCEPT ![j] = entry]

\* delete object[id]
DeleteKey(entries, id) ==
    LET j == IndexOf(Keys(entries), id) IN
    IF j = 0 THEN entries ELSE RemoveAt(entries, j)

\* the number of delayer.schedule() calls the listener makes, for a listener
\* that calls delayer.schedule() whatever delayer.isScheduled() answers
ListenerSchedulesAlways == IF ~scheduled THEN 1 ELSE 1

\* the number of delayer.schedule() calls the listener makes when it runs:
\* if (!delayer.isScheduled()) { delayer.schedule(); }
ListenerSchedules == IF ~scheduled THEN 1 ELSE 0

\* the listener the module attaches to onDidChangeSchema: the value of
\* delayer.isScheduled() after if (!delayer.isScheduled()) delayer.schedule()
OnDidChangeSchemaListener == IF ListenerSchedules > 0 THEN TRUE ELSE scheduled

\* this._onDidChangeSchema.fire(): the listeners run synchronously
Fire == scheduled' = IF attached THEN OnDidChangeSchemaListener ELSE scheduled

\* the registry state a listener finds when fire() runs: fire() is the last
\* statement of registerIcon and of deregisterIcon
FireSees == <<iconsById', properties', enumIds', enumDescriptions'>>

\* the record of a registry operation: its arguments, the number of times it
\* fired onDidChangeSchema, what it returned, the number of delayer.schedule()
\* calls made by the listener and the registry state the listener found
RegStep(op, id, defaults, description, fired, returned) ==
    [op |-> op, id |-> id, defaults |-> defaults, description |-> description,
     fired |-> fired, returned |-> returned,
     schedules |-> IF fired > 0 /\ attached THEN ListenerSchedules ELSE 0,
     seen |-> IF fired > 0 THEN FireSees ELSE <<>>]

\* IconRegistry.registerIcon(id, defaults, description, deprecationMessage)
RegisterIcon(id, defaults, description, deprecationMessage) ==
    LET d == IF description = <<>> THEN DefaultDescription(id) ELSE description
        iconContribution == [id |-> id, description |-> d, defaults |-> defaults,
                             deprecationMessage |-> deprecationMessage]
        propertySchema == [id |-> id, ref |-> "#/definitions/icons",
                           deprecationMessage |-> deprecationMessage,
                           markdownDescription |-> MarkdownDescription(d, id)]
    IN  /\ Len(enumIds) < MaxEnum
        /\ iconsById' = SetKey(iconsById, iconContribution)
        /\ properties' = SetKey(properties, propertySchema)
        /\ enumIds' = Append(enumIds, id)
        /\ enumDescriptions' = Append(enumDescriptions, d)
        /\ Fire
        /\ regLast' = RegStep("registerIcon", id, defaults, description, 1, [id |-> id])
        /\ UNCHANGED <<attached, viewVars, inputVars>>

\* IconRegistry.deregisterIcon(id)
DeregisterIcon(id) ==
    LET index == IndexOf(enumIds, id) IN
    /\ iconsById' = DeleteKey(iconsById, id)
    /\ properties' = DeleteKey(properties, id)
    /\ IF index # 0
       THEN /\ enumIds' = RemoveAt(enumIds, index)
            /\ enumDescriptions' = RemoveAt(enumDescriptions, index)
       ELSE UNCHANGED <<enumIds, enumDescriptions>>
    /\ Fire
    /\ regLast' = RegStep("deregisterIcon", id, "", <<>>, 1, [id |-> ""])
    /\ UNCHANGED <<attached, viewVars, inputVars>>

\* IconRegistry.getIcons()
GetIcons == iconsById

\* iconRegistry.onDidChangeSchema(listener) at the end of the module
AttachListener ==
    /\ ~attached
    /\ attached' = TRUE
    /\ regLast' = RegStep("attach", "", "", <<>>, 0, [id |-> ""])
    /\ UNCHANGED <<iconsById, properties, enumIds, enumDescriptions, scheduled, viewVars, inputVars>>

\* the delayer's timeout: schemaRegistry.notifySchemaChanged(iconsSchemaId)
NotifySchemaChanged ==
    /\ scheduled
    /\ scheduled' = FALSE
    /\ regLast' = RegStep("notify", "", "", <<>>, 0, [id |-> ""])
    /\ UNCHANGED <<iconsById, properties, enumIds, enumDescriptions, attached, viewVars, inputVars>>

RegistryNext ==
    \/ \E id \in Ids, g \in Glyphs, d \in Descriptions, m \in Deprecations :
            RegisterIcon(id, g, d, m)
    \/ \E id \in Ids : DeregisterIcon(id)
    \/ AttachListener
    \/ NotifySchemaChanged

SpecRegistry == Init /\ [][RegistryNext]_vars

\* the delayer is a timer of 200 ms: once scheduled, its timeout runs
SpecRegistryFair == SpecRegistry /\ WF_vars(NotifySchemaChanged)

(* ------------------------- shared definitions ------------------------- *)

Settled(kind, outcome) ==
    /\ last.op = "settle"
    /\ last.outcome = outcome
    /\ requests[last.req].kind = kind

\* adjacent rows are adjacent logical positions: no gap, no address twice
Contiguous(seq) == \A j \in 1..(Len(seq) - 1) : seq[j + 1] = seq[j] + 1

\* every page the source has answered so far was a full page
AllPagesFull ==
    \A i \in 1..Len(requests) :
        (requests[i].status = "resolved") => requests[i].returned = requests[i].count

Outstanding(kind) ==
    {i \in 1..Len(requests) : requests[i].kind = kind /\ requests[i].status = "pending"}

\* the step just taken started exactly one load, of this kind, anchor and count
StartsOne(kind, offset, count) ==
    /\ Len(requests') = Len(requests) + 1
    /\ SubSeq(requests', 1, Len(requests)) = requests
    /\ requests'[Len(requests')].kind = kind
    /\ requests'[Len(requests')].offset = offset
    /\ requests'[Len(requests')].count = count
    /\ requests'[Len(requests')].status = "pending"

(* ------------------------------- C1 ----------------------------------- *)

\* C1: in every reachable state the rows of the window are one contiguous
\* logical range: adjacent rows are adjacent positions of the source and no
\* address appears twice (stated here for sources that answer full pages
\* only, the case most favourable to the claim).
C1_WindowContiguous == AllPagesFull => Contiguous(rows)

(* ------------------------------- C2 ----------------------------------- *)

\* C2: a backward-triggering scroll event that arrives while a backward
\* fetch is outstanding issues no request, so two such events produce one
\* backward fetch and one prepended page.
C2_OneBackwardFetch ==
    [][ (/\ last'.op = "scroll"
         /\ BackwardCondition(last'.ev)
         /\ Outstanding("backward") # {})
        => requests' = requests ]_vars

(* ------------------------------- C3 ----------------------------------- *)

\* C3: a scroll event with scrollTop < oldScrollTop and scrollTop < height
\* starts exactly one backward fetch (anchor _lastOffset - pageSize, count
\* pageSize); when that fetch answers a full page the page is prepended: the
\* window grows by pageSize and every row it held moves up by pageSize.
C3_BackwardFetch ==
    [][ /\ (last'.op = "scroll" /\ BackwardCondition(last'.ev))
            => StartsOne("backward", lastOffset - NUM_INSTRUCTIONS_TO_LOAD,
                         NUM_INSTRUCTIONS_TO_LOAD)
        /\ (/\ last'.op = "settle" /\ last'.outcome = "rows"
            /\ requests[last'.req].kind = "backward"
            /\ last'.k = NUM_INSTRUCTIONS_TO_LOAD)
            => /\ Len(rows') = Len(rows) + NUM_INSTRUCTIONS_TO_LOAD
               /\ SubSeq(rows', 1, NUM_INSTRUCTIONS_TO_LOAD)
                    = Page(requests[last'.req].offset, NUM_INSTRUCTIONS_TO_LOAD)
               /\ \A j \in 1..Len(rows) :
                    rows'[j + NUM_INSTRUCTIONS_TO_LOAD] = rows[j] ]_vars

C3_Witness ==
    /\ Settled("backward", "rows")
    /\ last.k = NUM_INSTRUCTIONS_TO_LOAD
    /\ Len(rows) >= 2 * NUM_INSTRUCTIONS_TO_LOAD

(* ------------------------------- C4 ----------------------------------- *)

\* C4: a scroll event with scrollTop > oldScrollTop and scrollTop + height >
\* scrollHeight - height starts exactly one forward fetch, and the rows that
\* fetch answers are appended after the last row: every row already loaded
\* keeps its index.
C4_ForwardAppends ==
    [][ /\ (last'.op = "scroll" /\ ~BackwardCondition(last'.ev)
                /\ ForwardCondition(last'.ev))
            => StartsOne("forward", Len(rows), NUM_INSTRUCTIONS_TO_LOAD)
        /\ (/\ last'.op = "settle" /\ last'.outcome = "rows"
            /\ requests[last'.req].kind = "forward")
            => rows' = rows \o Page(requests[last'.req].offset, last'.k) ]_vars

(* ------------------------------- C5 ----------------------------------- *)

\* C5: when the initial load completes with a full page the window holds
\* exactly pageSize rows and _lastOffset is -pageSize.
C5_AfterInitialize ==
    (Settled("init", "rows") /\ last.k = NUM_INSTRUCTIONS_TO_LOAD)
        => (Len(rows) = NUM_INSTRUCTIONS_TO_LOAD
            /\ lastOffset = -NUM_INSTRUCTIONS_TO_LOAD)

C5_Witness ==
    /\ Settled("init", "rows")
    /\ last.k = NUM_INSTRUCTIONS_TO_LOAD
    /\ Len(rows) = NUM_INSTRUCTIONS_TO_LOAD

(* ------------------------------- C6 ----------------------------------- *)

C7_GrowsByReturned ==
    [][ (last'.op = "settle" /\ last'.outcome = "rows")
        => /\ last'.k \in 0..requests[last'.req].count
           /\ Len(rows') = Len(rows) + last'.k
           /\ requests'[last'.req].status = "resolved"
           /\ requests'[last'.req].returned = last'.k ]_vars

C7_Witness ==
    /\ last.op = "settle"
    /\ last.outcome = "rows"
    /\ last.k = 0
    /\ Len(rows) > 0

(* ------------------------------- C8 ----------------------------------- *)

\* C8: when the source rejects a fetch the window is unchanged, reveal is
\* not called and no request is made in its place; and a qualifying scroll
\* event that comes next starts a fetch.
C8_FailedFetch ==
    [][ /\ (last'.op = "settle" /\ last'.outcome = "rejected")
            => /\ rows' = rows
               /\ reveals' = reveals
               /\ Len(requests') = Len(requests)
               /\ requests'[last'.req].status = "rejected"
        /\ (/\ last.outcome = "rejected"
            /\ last'.op = "scroll"
            /\ (BackwardCondition(last'.ev) \/ ForwardCondition(last'.ev)))
            => /\ Len(requests') = Len(requests) + 1
               /\ requests'[Len(requests')].status = "pending" ]_vars

C8_Witness ==
    /\ last.op = "scroll"
    /\ last.after = "rejected"
    /\ BackwardCondition(last.ev)
    /\ Outstanding("backward") # {}
    /\ Len(rows) > 0

(* ------------------------------- C9 ----------------------------------- *)

\* C9: in every reachable state the window's logical span is
\* [_lastOffset, _lastOffset + len): row j of the window is the row at
\* logical position _lastOffset + j - 1; _lastOffset is never left
\* decremented without the matching prepended page.
C9_SpanAtOffset ==
    \A j \in 1..Len(rows) : rows[j] = lastOffset + (j - 1)

(* ------------------------------- C10 ---------------------------------- *)

\* C10: a scroll event starts at most one fetch; an event that satisfies
\* the backward condition starts a backward fetch and no forward fetch, and
\* the forward branch is taken only when the backward condition fails.
C10_OneBranchPerEvent ==
    [][ (last'.op = "scroll")
        => /\ Len(requests') <= Len(requests) + 1
           /\ SubSeq(requests', 1, Len(requests)) = requests
           /\ \A i \in (Len(requests) + 1)..Len(requests') :
                /\ BackwardCondition(last'.ev) => requests'[i].kind = "backward"
                /\ requests'[i].kind = "forward"
                    => (~BackwardCondition(last'.ev) /\ ForwardCondition(last'.ev)) ]_vars

C10_Witness ==
    /\ last.op = "scroll"
    /\ BackwardCondition(last.ev)
    /\ last.ev.scrollTop + last.ev.height > last.ev.scrollHeight - last.ev.height
    /\ Outstanding("backward") # {}

(* ------------------------------- C11 ---------------------------------- *)

\* C11: at any time at most one backward fetch and at most one forward
\* fetch is outstanding.
C11_OnePerDirection ==
    /\ Cardinality(Outstanding("backward")) <= 1
    /\ Cardinality(Outstanding("forward")) <= 1

(* ------------------------------- C12 ---------------------------------- *)

\* C12: whatever the interleaving of outstanding fetches and the order in
\* which they settle, the rows of the window are in the logical order of the
\* source: no row is followed by a row of a lower position.
C12_SourceOrder ==
    \A j \in 1..(Len(rows) - 1) : rows[j] <= rows[j + 1]

(* ------------------------------- C13 ---------------------------------- *)

\* C13: when a backward fetch resolves with a page of rows (full, short or
\* empty) and its continuation calls reveal, the index revealed is the index
\* of the row that was at the top of the viewport when the triggering scroll
\* event fired.
C13_TopRowKept ==
    [][ (/\ last'.op = "settle"
         /\ last'.outcome = "rows"
         /\ requests[last'.req].kind = "backward")
        => /\ Len(reveals') = Len(reveals) + 1
           /\ reveals'[Len(reveals')].index + 1 <= Len(rows')
           /\ rows'[reveals'[Len(reveals')].index + 1] = requests[last'.req].topRow ]_vars

(* ------------------------------- C14 ---------------------------------- *)

\* C14: once the view is disposed, a page of rows that arrives is discarded:
\* the step that receives it neither changes the rows nor calls reveal.
C14_DiscardAfterDispose ==
    [][ (disposed /\ last'.op = "settle" /\ last'.outcome = "rows")
        => (rows' = rows /\ reveals' = reveals) ]_vars

(* ------------------------------- C15 ---------------------------------- *)

\* C15: when a fetch has just failed and the next scroll event starts a
\* fetch in the same direction, the new request has the anchor and the count
\* of the failed one.
C15_RetrySameFetch ==
    [][ (/\ last.op = "settle" /\ last.outcome = "rejected"
         /\ last'.op = "scroll"
         /\ Len(requests') = Len(requests) + 1
         /\ requests'[Len(requests')].kind = requests[last.req].kind)
        => /\ requests'[Len(requests')].offset = requests[last.req].offset
           /\ requests'[Len(requests')].count = requests[last.req].count ]_vars

(* ------------------------------- C16 ---------------------------------- *)

\* C16: reveal(pageSize, 0.5) is called when the initial load resolves and
\* not before: while the initial load has not resolved no reveal has been
\* called, and once it has, the first reveal is that of row index pageSize.
C16_RevealAfterInitialLoad ==
    LET initial == [index |-> NUM_INSTRUCTIONS_TO_LOAD, relativeTop |-> "0.5"] IN
    /\ (reveals # <<>>)
        => (requests[1].status = "resolved" /\ reveals[1] = initial)
    /\ (requests # <<>> /\ requests[1].status = "resolved")
        => (reveals # <<>> /\ reveals[1] = initial)
    /\ \A j \in 2..Len(reveals) : reveals[j] # initial

C16_Witness ==
    /\ Settled("init", "rows")
    /\ reveals = << [index |-> NUM_INSTRUCTIONS_TO_LOAD, relativeTop |-> "0.5"] >>

(* ------------------------------- C18 ---------------------------------- *)

\* the two conditions as the specification words them
StatedBackward(e) == e.scrollTop < e.oldScrollTop /\ e.scrollTop < e.height

StatedForward(e) ==
    e.scrollTop > e.oldScrollTop /\ e.scrollTop + e.height > e.scrollHeight - e.height

\* C18: a scroll event that satisfies neither condition starts no fetch and
\* leaves the rows and _lastOffset unchanged.
C18_NeitherCondition ==
    [][ (/\ last'.op = "scroll"
         /\ ~StatedBackward(last'.ev)
         /\ ~StatedForward(last'.ev))
        => (requests' = requests /\ rows' = rows /\ lastOffset' = lastOffset) ]_vars

C18_Witness ==
    /\ last.op = "scroll"
    /\ last.ev.scrollTop < last.ev.oldScrollTop
    /\ last.ev.scrollTop >= last.ev.height
    /\ Len(requests) < MaxRequests

(* ------------------------------- C19 ---------------------------------- *)

\* C19: neither the scroll event that starts a forward fetch nor the
\* settling of a forward fetch changes _lastOffset or calls reveal.
C19_ForwardFrame ==
    [][ /\ (last'.op = "scroll" /\ ~StatedBackward(last'.ev)
                /\ StatedForward(last'.ev))
            => (lastOffset' = lastOffset /\ reveals' = reveals)
        /\ (last'.op = "settle" /\ requests[last'.req].kind = "forward")
            => (lastOffset' = lastOffset /\ reveals' = reveals) ]_vars

C19_Witness ==
    /\ Settled("forward", "rows")
    /\ last.k = NUM_INSTRUCTIONS_TO_LOAD
    /\ lastOffset = -NUM_INSTRUCTIONS_TO_LOAD

(* ------------------------------- C20 ---------------------------------- *)

\* C20: the window only grows: every step keeps all the rows, in their
\* order, and at most inserts new rows at one place.
C20_OnlyGrows ==
    [][ LET n == Len(rows') - Len(rows) IN
        /\ n >= 0
        /\ \E p \in 0..Len(rows) :
            /\ SubSeq(rows', 1, p) = SubSeq(rows, 1, p)
            /\ SubSeq(rows', p + n + 1, Len(rows')) = SubSeq(rows, p + 1, Len(rows)) ]_vars

C20_Witness ==
    /\ Settled("backward", "rows")
    /\ last.k = 1
    /\ Len(rows) = NUM_INSTRUCTIONS_TO_LOAD + 1

(* ------------------------------- C17 ---------------------------------- *)

\* C17: after registerIcon(id, defaults, description) getIcons() holds
\* exactly one contribution with that id, it carries the defaults and the
\* description of this registration (the default text built from the id when
\* no description was given), and the call returned a ThemeIcon with the id.
C17_RegisterIcon ==
    (regLast.op = "registerIcon")
        => /\ Cardinality({j \in 1..Len(GetIcons) : GetIcons[j].id = regLast.id}) = 1
           /\ \A j \in 1..Len(GetIcons) :
                GetIcons[j].id = regLast.id
                    => /\ GetIcons[j].defaults = regLast.defaults
                       /\ GetIcons[j].description
                            = IF regLast.description = <<>>
                              THEN <<"Icon with identifier ", regLast.id>>
                              ELSE regLast.description
           /\ regLast.returned = [id |-> regLast.id]

C17_Witness ==
    /\ regLast.op = "registerIcon"
    /\ Len(enumIds) = 2 /\ enumIds[1] = enumIds[2]
    /\ Len(GetIcons) = 1
    /\ regLast.description = <<>>
    /\ GetIcons[1].description = <<"Icon with identifier ", regLast.id>>

(* ------------------------------- C21 ---------------------------------- *)

\* C21: whenever a load that answered a full page resolves and its
\* continuation calls reveal, the index passed is an index of the table as
\* it is then: 0 <= index < number of rows.
C21_RevealIndexValid ==
    [][ (/\ last'.op = "settle" /\ last'.outcome = "rows"
         /\ last'.k = requests[last'.req].count
         /\ Len(reveals') = Len(reveals) + 1)
        => /\ 0 <= reveals'[Len(reveals')].index
           /\ reveals'[Len(reveals')].index < Len(rows') ]_vars

(* ------------------------------- C22 ---------------------------------- *)

\* C22: once createEditor has run _lastOffset never increases and is a
\* multiple of pageSize not greater than -pageSize; every getDisassemble call
\* with a negative offset is made with the value _lastOffset has at the call
\* and with pageSize as its count.
C22_OffsetAndAnchors ==
    [][ /\ created'
            => /\ lastOffset' <= -NUM_INSTRUCTIONS_TO_LOAD
               /\ lastOffset' % NUM_INSTRUCTIONS_TO_LOAD = 0
        /\ created => lastOffset' <= lastOffset
        /\ \A i \in (Len(requests) + 1)..Len(requests') :
            requests'[i].offset < 0
                => /\ requests'[i].offset = lastOffset'
                   /\ requests'[i].count = NUM_INSTRUCTIONS_TO_LOAD ]_vars

C22_Witness ==
    /\ last.op = "scroll"
    /\ Len(requests) = 3
    /\ requests[2].kind = "backward" /\ requests[2].offset = -2 * NUM_INSTRUCTIONS_TO_LOAD
    /\ requests[3].kind = "backward" /\ requests[3].offset = lastOffset
    /\ lastOffset = -3 * NUM_INSTRUCTIONS_TO_LOAD

(* ---------------------- DisassemblyViewInput ------------------------- *)

\* input.isDisposed(): true once dispose() has run on the input
IsDisposed(o) == o \in disposedInputs

\* the getter's test without the isDisposed() half
NeedsNewWhenUnset == instance = 0

\* !DisassemblyViewInput._instance || DisassemblyViewInput._instance.isDisposed()
NeedsNew == instance = 0 \/ IsDisposed(instance)

\* static get instance(): a new input is constructed and stored when the
\* field is not set or holds a disposed input; the field is returned
InstanceGetter ==
    /\ Len(reads) < MaxReads
    /\ IF NeedsNew
       THEN /\ inputs' = inputs + 1
            /\ instance' = inputs + 1
       ELSE UNCHANGED <<inputs, instance>>
    /\ reads' = Append(reads, instance')
    /\ UNCHANGED <<disposedInputs, viewVars, regVars>>

\* input.dispose() by any holder of an input the getter has returned;
\* disposing a disposed input changes nothing more
DisposeInput(o) ==
    /\ disposedInputs' = disposedInputs \cup {o}
    /\ UNCHANGED <<instance, inputs, reads, viewVars, regVars>>

InputNext ==
    \/ InstanceGetter
    \/ \E o \in 1..inputs : DisposeInput(o)

SpecInput == Init /\ [][InputNext]_vars

\* the set of the elements of a sequence
Elements(seq) == {seq[j] : j \in 1..Len(seq)}

\* C23: after deregisterIcon(id) the id is absent from getIcons(), from the
\* properties of the icon schema and from the enum of the reference schema,
\* whatever registerIcon and deregisterIcon calls came before.
C23_DeregisterRemoves ==
    regLast.op = "deregisterIcon"
        => /\ regLast.id \notin Elements(Keys(GetIcons))
           /\ regLast.id \notin Elements(Keys(properties))
           /\ regLast.id \notin Elements(enumIds)

\* C24: the three views of the registry agree: getIcons(), the keys of the
\* schema's properties and the enum hold the same ids, each listed once, and
\* enumDescriptions[i] is the description of the icon enum[i].
C24_ViewsAgree ==
    /\ Elements(Keys(GetIcons)) = Elements(Keys(properties))
    /\ Elements(Keys(GetIcons)) = Elements(enumIds)
    /\ \A i, j \in 1..Len(enumIds) : enumIds[i] = enumIds[j] => i = j
    /\ Len(enumDescriptions) = Len(enumIds)
    /\ \A i \in 1..Len(enumIds) :
            \E j \in 1..Len(GetIcons) :
                /\ GetIcons[j].id = enumIds[i]
                /\ GetIcons[j].description = enumDescriptions[i]

\* C25: while a notification is scheduled, an onDidChangeSchema event makes
\* the listener schedule nothing more and the one notification stays
\* pending; an event that finds none scheduled schedules exactly one; and
\* every event fired with the listener attached is eventually followed by
\* notifySchemaChanged.
C25_Debounced ==
    /\ [][ (attached /\ regLast'.fired > 0)
              => /\ scheduled'
                 /\ regLast'.schedules = (IF scheduled THEN 0 ELSE 1) ]_vars
    /\ (attached /\ regLast.fired > 0) ~> (regLast.op = "notify")

C25_Witness ==
    /\ attached /\ scheduled
    /\ regLast.op = "deregisterIcon" /\ regLast.fired = 1 /\ regLast.schedules = 0

\* C26: every registerIcon and every deregisterIcon fires onDidChangeSchema
\* exactly once, after the registry state has been updated; deregisterIcon of
\* an id that getIcons() does not hold leaves the registry state unchanged.
C26_FiresOnceAfterUpdate ==
    [][ regLast'.op \in {"registerIcon", "deregisterIcon"}
          => /\ regLast'.fired = 1
             /\ regLast'.seen = <<iconsById', properties', enumIds', enumDescriptions'>>
             /\ (regLast'.op = "deregisterIcon"
                   /\ regLast'.id \notin Elements(Keys(GetIcons)))
                  => UNCHANGED <<iconsById, properties, enumIds, enumDescriptions>> ]_vars

\* C27: a read of DisassemblyViewInput.instance never returns a disposed
\* input; it returns the input the read before returned while that input is
\* not disposed, and an input constructed by this read when that input has
\* been disposed.
C27_InstanceNotDisposed ==
    [][ Len(reads') = Len(reads) + 1
          => LET r == reads'[Len(reads')] IN
             /\ r \in 1..inputs'
             /\ r \notin disposedInputs'
             /\ Len(reads) > 0
                  => LET p == reads[Len(reads)] IN
                     /\ p \notin disposedInputs => r = p
                     /\ p \in disposedInputs => r \notin 1..inputs ]_vars

C27_Witness ==
    /\ reads = <<1, 1, 2, 2>>
    /\ disposedInputs = {1}
====
